---------------------------- MODULE Spec2Model ----------------------------
(***************************************************************************)
(* A model of crypt3: the hash-format framing around the digest engines.   *)
(*                                                                         *)
(* A Rust &str is modelled as a sequence of bytes; a byte is written as a  *)
(* one-character TLA+ string ("a", "$", "_"), and the two bytes of the     *)
(* UTF-8 encoding of U+00E9 are written UTF8_LEAD and UTF8_CONT.           *)
(***************************************************************************)
EXTENDS Integers, Sequences, FiniteSets, TLC

(***************************************************************************)
(* Bounds of the model.                                                    *)
(***************************************************************************)
\* number of outcomes of the random source that are explored
NumDraws == 2
\* longest salt a caller passes in a HashSetup
MaxSaltInput == 10
\* longest string handed to the recognizer
MaxRecogLen == 124

\* the strings a cursor is made over have at most MaxCursorLen bytes, and the
\* values of a run of take_until calls are kept for MaxCalls calls
MaxCursorLen == 4
MaxCalls == 7

(***************************************************************************)
(* Bytes and strings.                                                      *)
(***************************************************************************)
UTF8_LEAD == "<C3>"
UTF8_CONT == "<A9>"

\* the radix-64 alphabet of the crypt formats: ./0-9A-Za-z
CRYPT_HASH64 ==
    << ".", "/", "0", "1", "2", "3", "4", "5", "6", "7", "8", "9",
       "A", "B", "C", "D", "E", "F", "G", "H", "I", "J", "K", "L", "M",
       "N", "O", "P", "Q", "R", "S", "T", "U", "V", "W", "X", "Y", "Z",
       "a", "b", "c", "d", "e", "f", "g", "h", "i", "j", "k", "l", "m",
       "n", "o", "p", "q", "r", "s", "t", "u", "v", "w", "x", "y", "z" >>

AlphabetSet == { CRYPT_HASH64[i] : i \in 1..64 }

\* the 6-bit value of an alphabet character, -1 for any other byte
DecodeChar(c) ==
    IF c \in AlphabetSet
    THEN (CHOOSE i \in 1..64 : CRYPT_HASH64[i] = c) - 1
    ELSE -1

\* Option<&str> and Option<u32>
None == [some |-> FALSE, v |-> <<>>]
Some(x) == [some |-> TRUE, v |-> x]
NoRounds == [some |-> FALSE, v |-> 0]
SomeRounds(r) == [some |-> TRUE, v |-> r]

\* str::from_utf8(bytes).ok(): None when the slice cuts a multi-byte character
RECURSIVE ValidUtf8(_)
ValidUtf8(b) ==
    IF b = <<>> THEN TRUE
    ELSE IF Head(b) = UTF8_CONT THEN FALSE
    ELSE IF Head(b) = UTF8_LEAD
         THEN Len(b) >= 2 /\ b[2] = UTF8_CONT /\ ValidUtf8(SubSeq(b, 3, Len(b)))
         ELSE ValidUtf8(Tail(b))

from_utf8(b) == IF ValidUtf8(b) THEN Some(b) ELSE None

(***************************************************************************)
(* error::Error and Result<Hash>.                                          *)
(***************************************************************************)
Errors == {"InvalidHashString", "InsufficientLength", "EncodingError", "InvalidRounds"}

Ok(variant, str) == [ok |-> TRUE, v |-> variant, s |-> str, err |-> "none"]
Err(e) == [ok |-> FALSE, v |-> "none", s |-> <<>>, err |-> e]

(***************************************************************************)
(* parse.rs: HashSlice, the cursor over a hash string.                     *)
(***************************************************************************)
HashSlice_new(hash) == [bp |-> hash, len |-> Len(hash), pos |-> 0]

\* take that does not drain the cursor when it consumes the last byte
take_no_drain(hs, n) ==
    IF hs.pos > hs.len
    THEN [hs |-> hs, val |-> None]
    ELSE IF hs.pos + n > hs.len
         THEN [hs |-> [hs EXCEPT !.pos = hs.len + 1], val |-> None]
         ELSE [hs  |-> [hs EXCEPT !.pos = hs.pos + n],
               val |-> from_utf8(SubSeq(hs.bp, hs.pos + 1, hs.pos + n))]

\* take returns the cursor after the call and the value returned
take(hs, n) ==
    IF hs.pos > hs.len
    THEN [hs |-> hs, val |-> None]
    ELSE IF hs.pos + n > hs.len
         THEN [hs |-> [hs EXCEPT !.pos = hs.len + 1], val |-> None]
         ELSE LET endp == hs.pos + n
              IN  [hs  |-> [hs EXCEPT !.pos = endp + (IF endp = hs.len THEN 1 ELSE 0)],
                   val |-> from_utf8(SubSeq(hs.bp, hs.pos + 1, endp))]

\* a scan that does not look at the bytes
ScanUntil_to_end(hs, sp, ac) ==
    IF sp < hs.len THEN hs.len ELSE sp

\* the index the scan of take_until stops at (0-based)
RECURSIVE ScanUntil(_, _, _)
ScanUntil(hs, sp, ac) ==
    IF sp < hs.len /\ hs.bp[sp + 1] # ac THEN ScanUntil(hs, sp + 1, ac) ELSE sp

\* take_until without the test for a drained cursor
take_until_unlatched(hs, ac) ==
    LET sp == ScanUntil(hs, hs.pos, ac)
    IN  [hs  |-> [hs EXCEPT !.pos = sp + 1],
         val |-> from_utf8(SubSeq(hs.bp, hs.pos + 1, sp))]

\* take_until that stops on the delimiter instead of after it
take_until_on_delimiter(hs, ac) ==
    IF hs.pos > hs.len
    THEN [hs |-> hs, val |-> None]
    ELSE LET sp == ScanUntil(hs, hs.pos, ac)
         IN  [hs  |-> [hs EXCEPT !.pos = sp],
              val |-> from_utf8(SubSeq(hs.bp, hs.pos + 1, sp))]

take_until(hs, ac) ==
    IF hs.pos > hs.len
    THEN [hs |-> hs, val |-> None]
    ELSE LET sp == ScanUntil(hs, hs.pos, ac)
         IN  [hs  |-> [hs EXCEPT !.pos = sp + 1],
              val |-> from_utf8(SubSeq(hs.bp, hs.pos + 1, sp))]

\* Option::unwrap_or("X")
UnwrapOrX(opt) == IF opt.some THEN opt.v ELSE <<"X">>

\* at_end that answers from the position: no byte is left to read
at_end_by_position(hs) ==
    LET t == take(hs, 0)
    IN  [hs |-> t.hs, val |-> (hs.pos >= hs.len)]

at_end(hs) ==
    LET t == take(hs, 0)
    IN  [hs |-> t.hs, val |-> (UnwrapOrX(t.val) = <<"X">>)]


(***************************************************************************)
(* encode.rs: the radix-64 codec, modelled from the design document and    *)
(* from the vectors of the tests in crypt/bsdi.rs: the rounds               *)
(* field "Gl/." of "_Gl/.K0Ay.aosctsbJ1k" is 7250, least significant digit *)
(* first.                                                                  *)
(***************************************************************************)
Pow64(i) == 64 ^ i

\* encode_val(val, n): n digits, least significant first
encode_val(val, n) == [i \in 1..n |-> CRYPT_HASH64[((val \div Pow64(i - 1)) % 64) + 1]]

\* decode_val(s, n): the value of the first n characters of s
RECURSIVE DecodeLoop(_, _, _, _)
DecodeLoop(s, n, i, acc) ==
    IF i > n THEN [ok |-> TRUE, val |-> acc, err |-> "none"]
    ELSE IF i > Len(s) THEN [ok |-> FALSE, val |-> 0, err |-> "InsufficientLength"]
    ELSE IF DecodeChar(s[i]) < 0 THEN [ok |-> FALSE, val |-> 0, err |-> "EncodingError"]
    ELSE DecodeLoop(s, n, i + 1, acc + DecodeChar(s[i]) * Pow64(i - 1))

decode_val(s, n) == DecodeLoop(s, n, 1, 0)

\* the alphabet of bcrypt_hash64_encode: ./A-Za-z0-9
BCRYPT_HASH64 ==
    << ".", "/",
       "A", "B", "C", "D", "E", "F", "G", "H", "I", "J", "K", "L", "M",
       "N", "O", "P", "Q", "R", "S", "T", "U", "V", "W", "X", "Y", "Z",
       "a", "b", "c", "d", "e", "f", "g", "h", "i", "j", "k", "l", "m",
       "n", "o", "p", "q", "r", "s", "t", "u", "v", "w", "x", "y", "z",
       "0", "1", "2", "3", "4", "5", "6", "7", "8", "9" >>

\* bcrypt_hash64_encode(bytes), Len(bytes) a multiple of 3: 3 bytes -> 4 characters
bcrypt_hash64_encode(bytes) ==
    [i \in 1..((Len(bytes) \div 3) * 4) |->
        LET g  == (i - 1) \div 4
            b0 == bytes[3 * g + 1]
            b1 == bytes[3 * g + 2]
            b2 == bytes[3 * g + 3]
            k  == (i - 1) % 4
            v  == CASE k = 0 -> b0 \div 4
                    [] k = 1 -> (b0 % 4) * 16 + (b1 \div 16)
                    [] k = 2 -> (b1 % 16) * 4 + (b2 \div 64)
                    [] OTHER -> b2 % 64
        IN  BCRYPT_HASH64[v + 1]]

\* every character of s is in the radix-64 alphabet
AllRadix64(s) == \A i \in 1..Len(s) : s[i] \in AlphabetSet

(***************************************************************************)
(* random.rs: the salt source.  A draw of the random source is one of      *)
(* NumDraws byte strings.                                                  *)
(***************************************************************************)
Draws == 1..NumDraws

RandomBytes(draw, n) == [i \in 1..n |-> (draw * 89 + i * 53 + draw * i * 7) % 256]

gen_salt_str(chars, draw) ==
    LET bytes == ((chars + 3) \div 4) * 3
        sstr  == bcrypt_hash64_encode(RandomBytes(draw, bytes))
    IN  SubSeq(sstr, 1, chars)

(***************************************************************************)
(* The digest engines (crypt/md5.rs, internal/des.rs), modelled from the   *)
(* design document.  The bit-level transform is opaque: it is modelled as  *)
(* a deterministic function of (password, salt, rounds) that yields a      *)
(* checksum of the variant's length, and that agrees with the vectors of   *)
(* the tests.  The framing is modelled: the salt is validated against the  *)
(* alphabet and the canonical string is assembled.                         *)
(***************************************************************************)
ByteCode(c) ==
    IF c \in AlphabetSet THEN DecodeChar(c) + 1
    ELSE CASE c = "$" -> 65
           [] c = "_" -> 66
           [] c = "!" -> 67
           [] c = UTF8_LEAD -> 68
           [] c = UTF8_CONT -> 69
           [] OTHER -> 70

RECURSIVE Mix(_, _)
Mix(s, h) == IF s = <<>> THEN h ELSE Mix(Tail(s), (h * 67 + ByteCode(Head(s))) % 1000003)

PASSWORD == << "p", "a", "s", "s", "w", "o", "r", "d" >>
TEST == << "t", "e", "s", "t" >>

\* the checksum of n characters for (pass, salt, rounds) under algorithm alg
Digest(alg, pass, salt, rounds, n) ==
    CASE alg = "apr1" /\ pass = PASSWORD /\ salt = << "6", "3", "J", "l", "J", "2", "N", "H" >> ->
            << "s", "m", "E", "0", "m", "n", "B", "5", "h", "3", "t", "D", "r", "i", "0",
               "z", "k", "p", "W", "X", "t", "1" >>
      [] alg = "md5" /\ pass = PASSWORD /\ salt = << "5", "p", "Z", "S", "V", "9", "v", "a" >> ->
            << "a", "z", "f", "r", "P", "r", "6", "a", "f", "3", "F", "c", "7", "d", "L",
               "b", "l", "Q", "X", "V", "a", "0" >>
      [] alg = "bsdi" /\ pass = PASSWORD /\ salt = << "K", "0", "A", "y" >> /\ rounds = 7250 ->
            << ".", "a", "o", "s", "c", "t", "s", "b", "J", "1", "k" >>
      [] alg = "unix" /\ pass = PASSWORD /\ salt = << "x", "O" >> ->
            << "A", "F", "Z", "q", "R", "z", "5", "R", "d", "u", "I" >>
      [] alg = "unix" /\ pass = TEST /\ salt = << "a", "Z" >> ->
            << "G", "J", "u", "E", "6", "E", "X", "r", "j", "E", "E" >>
      [] OTHER ->
            LET seed == Mix(pass, Mix(salt, Mix(<<alg>>, rounds % 1000003)))
            IN  [i \in 1..n |-> CRYPT_HASH64[((seed \div i + (seed % 4099) * i + i * i) % 64) + 1]]

MD5_CHECKSUM_LEN == 22
DES_CHECKSUM_LEN == 11

\* md5::do_md5_crypt(pass, salt, magic) -> Result<String>
do_md5_crypt(pass, salt, magic) ==
    IF ~AllRadix64(salt) THEN Err("EncodingError")
    ELSE Ok("none", magic \o salt \o <<"$">> \o
              Digest(IF magic = <<"$", "1", "$">> THEN "md5" ELSE "apr1", pass, salt, 1000,
                     MD5_CHECKSUM_LEN))

\* internal::des::bsdi_crypt(pass, salt, rounds) -> Result<String>
bsdi_crypt(pass, salt, rounds) ==
    LET sv == decode_val(salt, 4)
    IN  IF ~sv.ok THEN Err(sv.err)
        ELSE Ok("none", <<"_">> \o encode_val(rounds, 4) \o SubSeq(salt, 1, 4) \o
                  Digest("bsdi", pass, SubSeq(salt, 1, 4), rounds, DES_CHECKSUM_LEN))

\* internal::des::unix_crypt(pass, salt) -> Result<String>
unix_crypt(pass, salt) ==
    LET sv == decode_val(salt, 2)
    IN  IF ~sv.ok THEN Err(sv.err)
        ELSE Ok("none", SubSeq(salt, 1, 2) \o
                  Digest("unix", pass, SubSeq(salt, 1, 2), 25, DES_CHECKSUM_LEN))

\* Result<String>::map(|s| Hash::V(HashV(s)))
AsHash(variant, r) == IF r.ok THEN Ok(variant, r.s) ELSE r


(***************************************************************************)
(* lib.rs: HashSetup, consteq; traits.rs: IntoHashSetup.                   *)
(***************************************************************************)
\* a hash_with parameter: a &str or a HashSetup
StrParam(s) == [kind |-> "str", s |-> s, salt |-> None, rounds |-> NoRounds]
SetupParam(salt, rounds) == [kind |-> "setup", s |-> <<>>, salt |-> salt, rounds |-> rounds]

\* Result<HashSetup>
OkSetup(salt, rounds) == [ok |-> TRUE, salt |-> salt, rounds |-> rounds, err |-> "none"]
ErrSetup(e) == [ok |-> FALSE, salt |-> None, rounds |-> NoRounds, err |-> e]

\* IntoHashSetup::into_hash_setup(param, f); parsed is f(param) for a &str,
\* which is not evaluated for a HashSetup
into_hash_setup(param, parsed) ==
    IF param.kind = "str" THEN parsed ELSE OkSetup(param.salt, param.rounds)

\* consteq without the comparison: any hash that could be computed matches
consteq_any_ok(hash, calchash) == calchash.ok

\* consteq with unwrap_or(true): an error counts as a match
consteq_default_true(hash, calchash) ==
    IF calchash.ok THEN hash = calchash.s ELSE TRUE

\* consteq(hash, calchash): calchash.ok().map(|h| hash == h.as_str()).unwrap_or_default()
consteq(hash, calchash) ==
    IF calchash.ok THEN hash = calchash.s ELSE FALSE

(***************************************************************************)
(* crypt/apr1.rs                                                           *)
(***************************************************************************)
APR1_MAGIC == << "$", "a", "p", "r", "1", "$" >>
apr1_MAGIC_LEN == Len(APR1_MAGIC)
apr1_HASH_LENGTH_MIN == apr1_MAGIC_LEN + 0 + 1 + 22
apr1_HASH_LENGTH_MAX == apr1_MAGIC_LEN + 8 + 1 + 22
apr1_HASH_LENGTH == apr1_HASH_LENGTH_MIN..apr1_HASH_LENGTH_MAX
apr1_MAX_SALT_LEN == 8

apr1_hash(pass, draw) ==
    LET saltstr == gen_salt_str(apr1_MAX_SALT_LEN, draw)
    IN  AsHash("Apr1", do_md5_crypt(pass, saltstr, APR1_MAGIC))

\* parse_md5_hash reading the salt as a field of fixed width 8
parse_md5_hash_fixed_width(hash) ==
    LET t1 == take(HashSlice_new(hash), apr1_MAGIC_LEN)
    IN  IF UnwrapOrX(t1.val) # APR1_MAGIC THEN ErrSetup("InvalidHashString")
        ELSE LET t2 == take(t1.hs, apr1_MAX_SALT_LEN)
             IN  IF ~t2.val.some THEN ErrSetup("InvalidHashString")
                 ELSE OkSetup(Some(t2.val.v), NoRounds)

parse_md5_hash(hash) ==
    LET t1 == take(HashSlice_new(hash), apr1_MAGIC_LEN)
    IN  IF UnwrapOrX(t1.val) # APR1_MAGIC THEN ErrSetup("InvalidHashString")
        ELSE LET t2 == take_until(t1.hs, "$")
             IN  IF ~t2.val.some THEN ErrSetup("InvalidHashString")
                 ELSE OkSetup(Some(t2.val.v), NoRounds)

\* the salt handed on without the truncation
apr1_salt_untruncated(hs, draw) ==
    IF ~hs.salt.some THEN Some(gen_salt_str(apr1_MAX_SALT_LEN, draw))
    ELSE Some(hs.salt.v)

\* a truncation that keeps one character less
apr1_salt_seven(hs, draw) ==
    IF ~hs.salt.some THEN Some(gen_salt_str(apr1_MAX_SALT_LEN, draw))
    ELSE IF Len(hs.salt.v) <= apr1_MAX_SALT_LEN THEN Some(hs.salt.v)
    ELSE take(HashSlice_new(hs.salt.v), apr1_MAX_SALT_LEN - 1).val

\* the salt hash_with hands to the engine; None stands for InvalidHashString
apr1_salt(hs, draw) ==
    IF ~hs.salt.some THEN Some(gen_salt_str(apr1_MAX_SALT_LEN, draw))
    ELSE IF Len(hs.salt.v) <= apr1_MAX_SALT_LEN THEN Some(hs.salt.v)
    ELSE take(HashSlice_new(hs.salt.v), apr1_MAX_SALT_LEN).val

apr1_hash_with(param, pass, draw) ==
    LET hs == into_hash_setup(param, parse_md5_hash(param.s))
    IN  IF ~hs.ok THEN Err(hs.err)
        ELSE LET salt == apr1_salt(hs, draw)
             IN  IF ~salt.some THEN Err("InvalidHashString")
                 ELSE AsHash("Apr1", do_md5_crypt(pass, salt.v, APR1_MAGIC))

apr1_verify(pass, hash) == consteq(hash, apr1_hash_with(StrParam(hash), pass, 1))

(***************************************************************************)
(* apr1_crypt.rs: the legacy module, which returns the plain string        *)
(***************************************************************************)
apr1_crypt_MAX_SALT_LEN == 8
apr1_crypt_MAGIC_LEN == 6

apr1_crypt_parse_md5_hash(hash) ==
    LET t1 == take(HashSlice_new(hash), apr1_crypt_MAGIC_LEN)
    IN  IF UnwrapOrX(t1.val) # APR1_MAGIC THEN ErrSetup("InvalidHashString")
        ELSE LET t2 == take_until(t1.hs, "$")
             IN  IF t2.val.some THEN OkSetup(Some(t2.val.v), NoRounds)
                 ELSE ErrSetup("InvalidHashString")

apr1_crypt_hash_with(param, pass, draw) ==
    LET hs == into_hash_setup(param, apr1_crypt_parse_md5_hash(param.s))
    IN  IF ~hs.ok THEN Err(hs.err)
        ELSE IF hs.salt.some
        THEN IF Len(hs.salt.v) <= apr1_crypt_MAX_SALT_LEN
             THEN do_md5_crypt(pass, hs.salt.v, APR1_MAGIC)
             ELSE LET t == take(HashSlice_new(hs.salt.v), apr1_crypt_MAX_SALT_LEN)
                  IN  IF t.val.some THEN do_md5_crypt(pass, t.val.v, APR1_MAGIC)
                      ELSE Err("InvalidHashString")
        ELSE do_md5_crypt(pass, gen_salt_str(apr1_crypt_MAX_SALT_LEN, draw), APR1_MAGIC)

(***************************************************************************)
(* crypt/bsdi.rs                                                           *)
(***************************************************************************)
MIN_ROUNDS == 1
MAX_ROUNDS == (2 ^ 24) - 1
bsdi_HASH_LENGTH == 1 + 4 + 4 + 11
DEFAULT_ROUNDS == 7250
bsdi_SALT_LEN == 4
ROUNDS_LEN == 4

bsdi_hash(pass, draw) ==
    LET saltstr == gen_salt_str(bsdi_SALT_LEN, draw)
    IN  AsHash("Bsdi", bsdi_crypt(pass, saltstr, DEFAULT_ROUNDS))

\* a parser that also requires the checksum field
parse_bsdi_hash_with_checksum(hash) ==
    LET t1 == take(HashSlice_new(hash), 1)
    IN  IF UnwrapOrX(t1.val) # <<"_">> THEN ErrSetup("InvalidHashString")
        ELSE LET t2 == take(t1.hs, ROUNDS_LEN)
             IN  IF ~t2.val.some THEN ErrSetup("InvalidHashString")
                 ELSE LET rounds == decode_val(t2.val.v, bsdi_SALT_LEN)
                      IN  IF ~rounds.ok THEN ErrSetup(rounds.err)
                          ELSE LET t3 == take(t2.hs, bsdi_SALT_LEN)
                                   t4 == take(t3.hs, DES_CHECKSUM_LEN)
                               IN  IF ~t3.val.some \/ ~t4.val.some
                                   THEN ErrSetup("InvalidHashString")
                                   ELSE OkSetup(Some(t3.val.v), SomeRounds(rounds.val))

\* a parser that reports a missing field as a failure of length
parse_bsdi_hash_short_is_length(hash) ==
    LET t1 == take(HashSlice_new(hash), 1)
    IN  IF UnwrapOrX(t1.val) # <<"_">> THEN ErrSetup("InvalidHashString")
        ELSE LET t2 == take(t1.hs, ROUNDS_LEN)
             IN  IF ~t2.val.some THEN ErrSetup("InsufficientLength")
                 ELSE LET rounds == decode_val(t2.val.v, bsdi_SALT_LEN)
                      IN  IF ~rounds.ok THEN ErrSetup(rounds.err)
                          ELSE LET t3 == take(t2.hs, bsdi_SALT_LEN)
                               IN  IF ~t3.val.some THEN ErrSetup("InsufficientLength")
                                   ELSE OkSetup(Some(t3.val.v), SomeRounds(rounds.val))

parse_bsdi_hash(hash) ==
    LET t1 == take(HashSlice_new(hash), 1)
    IN  IF UnwrapOrX(t1.val) # <<"_">> THEN ErrSetup("InvalidHashString")
        ELSE LET t2 == take(t1.hs, ROUNDS_LEN)
             IN  IF ~t2.val.some THEN ErrSetup("InvalidHashString")
                 ELSE LET rounds == decode_val(t2.val.v, bsdi_SALT_LEN)
                      IN  IF ~rounds.ok THEN ErrSetup(rounds.err)
                          ELSE LET t3 == take(t2.hs, bsdi_SALT_LEN)
                               IN  IF ~t3.val.some THEN ErrSetup("InvalidHashString")
                                   ELSE OkSetup(Some(t3.val.v), SomeRounds(rounds.val))

\* a rounds check without the lower bound
bsdi_rounds_ok_no_min(r) == r <= MAX_ROUNDS

\* the rounds check of hash_with
bsdi_rounds_ok(r) == r >= MIN_ROUNDS /\ r <= MAX_ROUNDS

bsdi_hash_with(param, pass, draw) ==
    LET hs == into_hash_setup(param, parse_bsdi_hash(param.s))
    IN  IF ~hs.ok THEN Err(hs.err)
        ELSE IF hs.rounds.some /\ ~bsdi_rounds_ok(hs.rounds.v) THEN Err("InvalidRounds")
        ELSE LET rounds == IF hs.rounds.some THEN hs.rounds.v ELSE DEFAULT_ROUNDS
                 salt   == IF hs.salt.some THEN hs.salt.v ELSE gen_salt_str(bsdi_SALT_LEN, draw)
             IN  AsHash("Bsdi", bsdi_crypt(pass, salt, rounds))

bsdi_verify(pass, hash) == consteq(hash, bsdi_hash_with(StrParam(hash), pass, 1))

(***************************************************************************)
(* crypt/unix.rs                                                           *)
(***************************************************************************)
unix_SALT_LEN == 2
unix_HASH_LENGTH == 2 + 11

unix_hash(pass, draw) ==
    AsHash("Unix", unix_crypt(pass, gen_salt_str(unix_SALT_LEN, draw)))

\* a hash_with that reports every failure of the engine as InvalidHashString
unix_hash_with_invalid(salt, pass) ==
    IF unix_crypt(pass, salt).ok THEN AsHash("Unix", unix_crypt(pass, salt))
    ELSE Err("InvalidHashString")

unix_hash_with(salt, pass) == AsHash("Unix", unix_crypt(pass, salt))

unix_verify(pass, hash) == consteq(hash, AsHash("Unix", unix_crypt(pass, hash)))


(***************************************************************************)
(* crypt/md5.rs, crypt/bcrypt.rs, crypt/sha1.rs, crypt/sha256.rs and       *)
(* crypt/sha512.rs, modelled from the formats of the design document:      *)
(* the total lengths, and a hash_with that keeps the parameter fields of   *)
(* the string and recomputes the checksum.                                 *)
(***************************************************************************)
MD5_MAGIC == << "$", "1", "$" >>
md5_HASH_LENGTH == (3 + 0 + 1 + 22)..(3 + 8 + 1 + 22)
bcrypt_HASH_LENGTH == 4 + 2 + 1 + 22 + 31
sha1_HASH_LENGTH == (6 + 1 + 1 + 0 + 1 + 28)..(6 + 10 + 1 + 64 + 1 + 28)
sha256_HASH_LENGTH == (3 + 0 + 1 + 43)..(3 + 17 + 16 + 1 + 43)
sha512_HASH_LENGTH == (3 + 0 + 1 + 86)..(3 + 17 + 16 + 1 + 86)

md5_hash_with(hash, pass) ==
    LET t1 == take(HashSlice_new(hash), 3)
    IN  IF UnwrapOrX(t1.val) # MD5_MAGIC THEN Err("InvalidHashString")
        ELSE LET t2 == take_until(t1.hs, "$")
             IN  IF ~t2.val.some THEN Err("InvalidHashString")
                 ELSE AsHash("Md5", do_md5_crypt(pass, SubSeq(t2.val.v, 1, 8), MD5_MAGIC))

ChecksumLen(variant) ==
    CASE variant = "Bcrypt" -> 31
      [] variant = "Sha1"   -> 28
      [] variant = "Sha256" -> 43
      [] OTHER              -> 86

\* the parameter fields of a modular hash string: all but the checksum
ParamFields(variant, hash) == SubSeq(hash, 1, Len(hash) - ChecksumLen(variant))

\* bcrypt: "$2a$" cost "$" and 22 characters of salt; the others end their
\* parameter fields with "$"
ParamFieldsOk(variant, params) ==
    /\ \A i \in 1..Len(params) : params[i] \in AlphabetSet \cup {"$", "="}
    /\ IF variant = "Bcrypt" THEN Len(params) = 4 + 2 + 1 + 22
       ELSE Len(params) >= 4 /\ params[Len(params)] = "$"

modular_hash_with(variant, hash, pass) ==
    LET params == ParamFields(variant, hash)
    IN  IF Len(hash) < ChecksumLen(variant) + 3 THEN Err("InsufficientLength")
        ELSE IF ~ParamFieldsOk(variant, params) THEN Err("InvalidHashString")
        ELSE Ok(variant, params \o Digest(variant, pass, params, 0, ChecksumLen(variant)))

(***************************************************************************)
(* hash.rs: the Hash enum and the recognizer                               *)
(***************************************************************************)
Variants == {"Apr1", "Bcrypt", "Bsdi", "Md5", "Sha1", "Sha256", "Sha512", "Unix"}

\* a dispatch that sends an apr1 hash to the md5 codec
Hash_hash_with_apr1_as_md5(self, pass) ==
    CASE self.v \in {"Apr1", "Md5"} -> md5_hash_with(self.s, pass)
      [] self.v = "Bsdi" -> bsdi_hash_with(StrParam(self.s), pass, 1)
      [] self.v = "Unix" -> unix_hash_with(self.s, pass)
      [] OTHER           -> modular_hash_with(self.v, self.s, pass)

\* Hash::hash_with(&self, pass)
Hash_hash_with(self, pass) ==
    CASE self.v = "Apr1" -> apr1_hash_with(StrParam(self.s), pass, 1)
      [] self.v = "Bsdi" -> bsdi_hash_with(StrParam(self.s), pass, 1)
      [] self.v = "Md5"  -> md5_hash_with(self.s, pass)
      [] self.v = "Unix" -> unix_hash_with(self.s, pass)
      [] OTHER           -> modular_hash_with(self.v, self.s, pass)

\* Hash::verify(&self, pass)
Hash_verify(self, pass) ==
    CASE self.v = "Apr1" -> apr1_verify(pass, self.s)
      [] self.v = "Bsdi" -> bsdi_verify(pass, self.s)
      [] self.v = "Md5"  -> consteq(self.s, md5_hash_with(self.s, pass))
      [] self.v = "Unix" -> unix_verify(pass, self.s)
      [] OTHER           -> consteq(self.s, modular_hash_with(self.v, self.s, pass))

\* a gate that lets longer strings through
gatel_at_least(variant, s, size) ==
    IF Len(s) >= size THEN Ok(variant, s) ELSE Err("InsufficientLength")

gatel(variant, s, size) ==
    IF Len(s) = size THEN Ok(variant, s) ELSE Err("InsufficientLength")

gater(variant, s, range) ==
    IF Len(s) \in range THEN Ok(variant, s) ELSE Err("InsufficientLength")

\* a recognizer that reports every failure as a failure of length
try_from_length_errors(value) ==
    LET t1    == take(HashSlice_new(value), 1)
        first == UnwrapOrX(t1.val)
    IN  IF first = <<"_">> THEN gatel("Bsdi", value, bsdi_HASH_LENGTH)
        ELSE IF first = <<"$">>
        THEN LET token == UnwrapOrX(take_until(t1.hs, "$").val)
             IN  CASE token = <<"1">> -> gater("Md5", value, md5_HASH_LENGTH)
                   [] token = <<"a", "p", "r", "1">> -> gater("Apr1", value, apr1_HASH_LENGTH)
                   [] token \in {<<"2", "a">>, <<"2", "b">>, <<"2", "y">>} ->
                          gatel("Bcrypt", value, bcrypt_HASH_LENGTH)
                   [] token = <<"s", "h", "a", "1">> -> gater("Sha1", value, sha1_HASH_LENGTH)
                   [] token = <<"5">> -> gater("Sha256", value, sha256_HASH_LENGTH)
                   [] token = <<"6">> -> gater("Sha512", value, sha512_HASH_LENGTH)
                   [] OTHER -> Err("InsufficientLength")
        ELSE IF Len(value) = unix_HASH_LENGTH THEN Ok("Unix", value)
        ELSE Err("InsufficientLength")

\* impl TryFrom<&str> for Hash
try_from(value) ==
    LET t1    == take(HashSlice_new(value), 1)
        first == UnwrapOrX(t1.val)
    IN  IF first = <<"_">> THEN gatel("Bsdi", value, bsdi_HASH_LENGTH)
        ELSE IF first = <<"$">>
        THEN LET token == UnwrapOrX(take_until(t1.hs, "$").val)
             IN  CASE token = <<"1">> -> gater("Md5", value, md5_HASH_LENGTH)
                   [] token = <<"a", "p", "r", "1">> -> gater("Apr1", value, apr1_HASH_LENGTH)
                   [] token \in {<<"2", "a">>, <<"2", "b">>, <<"2", "y">>} ->
                          gatel("Bcrypt", value, bcrypt_HASH_LENGTH)
                   [] token = <<"s", "h", "a", "1">> -> gater("Sha1", value, sha1_HASH_LENGTH)
                   [] token = <<"5">> -> gater("Sha256", value, sha256_HASH_LENGTH)
                   [] token = <<"6">> -> gater("Sha512", value, sha512_HASH_LENGTH)
                   [] OTHER -> Err("InvalidHashString")
        ELSE IF Len(value) = unix_HASH_LENGTH THEN Ok("Unix", value)
        ELSE Err("InvalidHashString")

(***************************************************************************)
(* lib.rs: mod unix, the format-agnostic functions                         *)
(***************************************************************************)
crypt(pass, hash) ==
    LET h == try_from(hash)
    IN  IF ~h.ok THEN h ELSE Hash_hash_with(h, pass)

verify(pass, hash) == consteq(hash, crypt(pass, hash))


(***************************************************************************)
(* The state: the call of the public interface that has just returned     *)
(* (operation, password, parameter, value returned; op = "idle" between    *)
(* calls) and the hash the caller keeps, as a password database keeps the  *)
(* hash of a user: its variant, its password, its string and the HashSetup *)
(* of the call that returned it (for a string parameter, only that it was  *)
(* a string).  Beside them a HashSlice (cursor) with the call last made on *)
(* it (last) and the values a run of take_until calls returned (fields),   *)
(* and the invocation of bsdi::hash_with in progress (frame).              *)
(***************************************************************************)
VARIABLES op, pass, arg, ret, db, cursor, last, fields, frame

vars == <<op, pass, arg, ret, db, cursor, last, fields, frame>>

\* the call last made on the cursor: its name, its argument, the position it
\* found, the value it returned (take, take_until) or its answer (at_end)
NoCall == [name |-> "new", n |-> 0, ac |-> "", before |-> 0, val |-> None, b |-> FALSE]

\* the values returned since the cursor was made, while every call on it was
\* take_until with the one delimiter d
NoFields == [d |-> "fresh", vals |-> <<>>]
Mixed == [d |-> "mixed", vals |-> <<>>]

NoParam == [kind |-> "none", s |-> <<>>, salt |-> None, rounds |-> NoRounds]

\* the invocation of bsdi::hash_with in progress: the statement it is at, its
\* parameters and locals, the statements it has executed, and how many times
\* it has drawn from the random source and called the engine
NoFrame ==
    [pc |-> "idle", param |-> NoParam, pass |-> <<>>, hs |-> ErrSetup("none"),
     rounds |-> 0, salt |-> <<>>, r |-> Err("none"),
     steps |-> <<>>, drawn |-> 0, engine |-> 0]

RetNone == [kind |-> "none", r |-> Err("none"), b |-> FALSE]
RetResult(r) == [kind |-> "result", r |-> r, b |-> FALSE]
RetBool(b) == [kind |-> "bool", r |-> Err("none"), b |-> b]

NoDb == [some |-> FALSE, v |-> "none", pass |-> <<>>, s |-> <<>>, from |-> NoParam]

(***************************************************************************)
(* The inputs of the calls.                                                *)
(***************************************************************************)
Rep(c, n) == [i \in 1..n |-> c]

Passwords == {PASSWORD, TEST}

\* a salt of n valid characters; its first 8 are the salt of the apr1 test vector
SaltOfLen(n) ==
    [i \in 1..n |->
        IF i <= 8 THEN << "6", "3", "J", "l", "J", "2", "N", "H" >>[i]
        ELSE CRYPT_HASH64[((i * 7) % 64) + 1]]

\* 7 ASCII characters and U+00E9: 8 characters, 9 bytes
SALT_8CHARS_9BYTES == Rep("a", 7) \o <<UTF8_LEAD, UTF8_CONT>>

Apr1Salts ==
    { SaltOfLen(n) : n \in 0..MaxSaltInput }
    \cup { << "a", "b", "$", "c", "d" >>, << "!", "!" >>, SALT_8CHARS_9BYTES }

Apr1Setups == { SetupParam(None, NoRounds) } \cup { SetupParam(Some(s), NoRounds) : s \in Apr1Salts }

BsdiSalts ==
    { << "K", "0", "A", "y" >>, << "K", "0", "A", "y", "z", "z" >>, << "K", "0" >>,
      << "K", "!", "A", "y" >> }

RoundsInputs == {0, 1, DEFAULT_ROUNDS, MAX_ROUNDS, MAX_ROUNDS + 1}

BsdiSetups ==
    { SetupParam(s, r) :
        s \in {None} \cup { Some(x) : x \in BsdiSalts },
        r \in {NoRounds} \cup { SomeRounds(x) : x \in RoundsInputs } }

UnixSalts ==
    { << "x", "O" >>, << "a", "Z" >>, << "Z" >>, << "!", "!" >>, <<>>,
      << "_", "a" >>, << "$", "1" >> }

\* the checksum field of a kept hash is its last n bytes
ChecksumLenOf(v) ==
    CASE v \in {"Apr1", "Md5"}  -> MD5_CHECKSUM_LEN
      [] v \in {"Bsdi", "Unix"} -> DES_CHECKSUM_LEN
      [] OTHER                  -> ChecksumLen(v)

ChecksumStart(h) == Len(h.s) - ChecksumLenOf(h.v) + 1

\* h.s with the byte at position i replaced by c
Mutate(s, i, c) == [s EXCEPT ![i] = c]

ChecksumMutations(h) ==
    { Mutate(h.s, i, c) : i \in {ChecksumStart(h), Len(h.s)}, c \in {".", "z", "$"} }
    \ {h.s}

\* the kept hash cut after, at and before the end of its salt field
Truncations(h) ==
    { SubSeq(h.s, 1, n) : n \in { k \in (ChecksumStart(h) - 3)..(ChecksumStart(h) + 1) : k >= 0 } }

FixedCands ==
    { <<>>,
      << "!", "!" >>,
      << "$" >>,
      << "_" >>,
      APR1_MAGIC,
      << "$", "a", "p", "r", "1", "$", "$" >>,
      << "$", "a", "p", "r", "1", "$", "6", "3", "J", "l", "J", "2", "N", "H", "z", "$",
         "s", "m", "E", "0", "m", "n", "B", "5", "h", "3", "t", "D", "r", "i", "0", "z",
         "k", "p", "W", "X", "t", "1" >>,
      APR1_MAGIC \o SALT_8CHARS_9BYTES \o <<"$">> \o Rep("a", 22),
      APR1_MAGIC \o Rep("!", 23),
      << "_", ".", ".", ".", ".", "K", "0", "A", "y" >>,
      << "_", "G", "l", "/", "." >>,
      << "_", "G", "l", "/", ".", "K", "0", "A" >>,
      << "_", "G", "l", "!", "." >>,
      << "_", "G", "l" >>,
      << "$", "a", "p", "r" >>,
      << "_", "G", "l", "!", ".", "K", "0", "A", "y" >>,
      << "_", ".", ".", ".", ".", "K", "!", "A", "y" >>,
      << "_", "G", "l", "/", ".", "K", "!", "A", "y", ".", "a", "o", "s", "c", "t", "s",
         "b", "J", "1", "k" >>,
      << "a", "Z", "F", "J", "u", "E", "6", "E", "X", "r", "j", "E", "E" >>,
      Rep("!", 13),
      << "$", "1", "$", "5", "p", "Z", "S", "V", "9", "v", "a", "$", "a", "z", "f", "r",
         "P", "r", "6", "a", "f", "3", "F", "c", "7", "d", "L", "b", "l", "Q", "X", "V",
         "a", "0" >>,
      << "$", "5", "$", "a", "b", "$" >> \o Rep("a", 43),
      << "$", "5", "$" >> \o Rep("a", 44),
      << "$", "9", "$", "a", "b", "c" >> }

\* Every operation is a function of its parameters alone, so the parameters a
\* caller chooses freely are explored while no hash is kept, and the strings
\* derived from the kept hash (itself, changed, or cut) once one is kept.
StrCands ==
    IF db.some THEN {db.s} \cup ChecksumMutations(db) \cup Truncations(db) ELSE FixedCands

\* the strings given to the functions of one variant's module
StrCandsOf(variants) ==
    IF db.some /\ db.v \notin variants THEN {} ELSE StrCands

SetupsOf(setups) == IF db.some THEN {} ELSE setups

(***************************************************************************)
(* The operations.                                                         *)
(***************************************************************************)
Call(o, p, a, r) ==
    /\ op = "idle"
    /\ op' = o
    /\ pass' = p
    /\ arg' = a
    /\ ret' = r
    /\ UNCHANGED <<db, cursor, last, fields, frame>>

\* the draws a call can observe: one when the salt is given
DrawsFor(a) == IF a.kind = "setup" /\ ~a.salt.some THEN Draws ELSE {1}

Apr1Hash ==
    \E p \in Passwords, d \in SetupsOf(Draws) :
        Call("apr1::hash", p, NoParam, RetResult(apr1_hash(p, d)))

Apr1HashWith ==
    \E p \in Passwords,
       a \in SetupsOf(Apr1Setups) \cup { StrParam(s) : s \in StrCandsOf({"Apr1"}) } :
        \E d \in DrawsFor(a) :
            Call("apr1::hash_with", p, a, RetResult(apr1_hash_with(a, p, d)))

Apr1Verify ==
    \E p \in Passwords, s \in StrCandsOf({"Apr1"}) :
        Call("apr1::verify", p, StrParam(s), RetBool(apr1_verify(p, s)))

Apr1CryptHashWith ==
    \E p \in Passwords,
       a \in SetupsOf(Apr1Setups) \cup { StrParam(s) : s \in StrCandsOf({"Apr1"}) } :
        \E d \in DrawsFor(a) :
            Call("apr1_crypt::hash_with", p, a, RetResult(apr1_crypt_hash_with(a, p, d)))

BsdiHash ==
    \E p \in Passwords, d \in SetupsOf(Draws) :
        Call("bsdi::hash", p, NoParam, RetResult(bsdi_hash(p, d)))

BsdiHashWith ==
    \E p \in Passwords,
       a \in SetupsOf(BsdiSetups) \cup { StrParam(s) : s \in StrCandsOf({"Bsdi"}) } :
        \E d \in DrawsFor(a) :
            Call("bsdi::hash_with", p, a, RetResult(bsdi_hash_with(a, p, d)))

BsdiVerify ==
    \E p \in Passwords, s \in StrCandsOf({"Bsdi"}) :
        Call("bsdi::verify", p, StrParam(s), RetBool(bsdi_verify(p, s)))

UnixHash ==
    \E p \in Passwords, d \in SetupsOf(Draws) :
        Call("unix::hash", p, NoParam, RetResult(unix_hash(p, d)))

UnixHashWith ==
    \E p \in Passwords, s \in SetupsOf(UnixSalts) \cup StrCandsOf({"Unix"}) :
        Call("unix::hash_with", p, StrParam(s), RetResult(unix_hash_with(s, p)))

UnixVerify ==
    \E p \in Passwords, s \in StrCandsOf({"Unix"}) :
        Call("unix::verify", p, StrParam(s), RetBool(unix_verify(p, s)))

\* Hash::try_from(s)
TryFrom ==
    \E s \in StrCands :
        Call("Hash::try_from", <<>>, StrParam(s), RetResult(try_from(s)))

\* Hash::try_from(s).unwrap().hash_with(pass)
HashHashWith ==
    \E p \in Passwords, s \in StrCands :
        /\ try_from(s).ok
        /\ Call("Hash::hash_with", p, StrParam(s), RetResult(Hash_hash_with(try_from(s), p)))

\* Hash::try_from(s).unwrap().verify(pass)
HashVerify ==
    \E p \in Passwords, s \in StrCands :
        /\ try_from(s).ok
        /\ Call("Hash::verify", p, StrParam(s), RetBool(Hash_verify(try_from(s), p)))

\* lib.rs unix::crypt(pass, hash)
Crypt ==
    \E p \in Passwords, s \in StrCands :
        Call("crypt", p, StrParam(s), RetResult(crypt(p, s)))

\* lib.rs unix::verify(pass, hash)
Verify ==
    \E p \in Passwords, s \in StrCands :
        Call("verify", p, StrParam(s), RetBool(verify(p, s)))

HashingOps ==
    {"apr1::hash", "apr1::hash_with", "bsdi::hash", "bsdi::hash_with",
     "unix::hash", "unix::hash_with", "Hash::hash_with", "crypt"}

\* the caller keeps the Hash a hashing call returned for the password
Keep ==
    /\ op \in HashingOps
    /\ ret.kind = "result"
    /\ ret.r.ok
    /\ op' = "idle"
    /\ pass' = <<>>
    /\ arg' = NoParam
    /\ ret' = RetNone
    /\ db' = [some |-> TRUE, v |-> ret.r.v, pass |-> pass, s |-> ret.r.s,
              from |-> IF arg.kind = "str" THEN StrParam(<<>>) ELSE arg]
    /\ UNCHANGED <<cursor, last, fields, frame>>

\* the caller drops the value returned
Drop ==
    /\ op # "idle"
    /\ op' = "idle"
    /\ pass' = <<>>
    /\ arg' = NoParam
    /\ ret' = RetNone
    /\ UNCHANGED <<db, cursor, last, fields, frame>>

Init ==
    /\ op = "idle"
    /\ pass = <<>>
    /\ arg = NoParam
    /\ ret = RetNone
    /\ db = NoDb
    /\ cursor = HashSlice_new(<<>>)
    /\ last = NoCall
    /\ fields = NoFields
    /\ frame = NoFrame

Next ==
    \/ Apr1Hash
    \/ Apr1HashWith
    \/ Apr1Verify
    \/ Apr1CryptHashWith
    \/ BsdiHash
    \/ BsdiHashWith
    \/ BsdiVerify
    \/ UnixHash
    \/ UnixHashWith
    \/ UnixVerify
    \/ TryFrom
    \/ HashHashWith
    \/ HashVerify
    \/ Crypt
    \/ Verify
    \/ Keep
    \/ Drop

Spec == Init /\ [][Next]_vars

(***************************************************************************)
(* The recognizer alone, over strings of every length up to MaxRecogLen:   *)
(* a leading part, cut or filled with one character to the length.         *)
(***************************************************************************)
RecogPrefixes ==
    { <<>>, << "_" >>, << "$" >>, << "$", "$" >>, << "!" >>, << "X" >>, << "a" >>,
      << UTF8_LEAD, UTF8_CONT >>,
      << "$", "1", "$" >>, << "$", "1" >>, << "$", "1", "a", "$" >>,
      << "$", "a", "p", "r", "1", "$" >>, << "$", "a", "p", "r", "1" >>,
      << "$", "a", "p", "r", "$" >>,
      << "$", "2", "a", "$" >>, << "$", "2", "b", "$" >>, << "$", "2", "y", "$" >>,
      << "$", "2", "x", "$" >>, << "$", "2", "$" >>,
      << "$", "s", "h", "a", "1", "$" >>, << "$", "s", "h", "a", "$" >>,
      << "$", "5", "$" >>, << "$", "6", "$" >>, << "$", "7", "$" >>,
      << "$", "X", "$" >>, << "$", UTF8_LEAD, UTF8_CONT, "$" >> }

RecogFill == {"a", "$", "!"}

\* the string of n bytes that starts as p and goes on with f
Pad(p, f, n) == [i \in 1..n |-> IF i <= Len(p) THEN p[i] ELSE f]

\* the parameter is a &str: only valid UTF-8 reaches the recognizer
RecogCands ==
    { s \in { Pad(p, f, n) : p \in RecogPrefixes, f \in RecogFill, n \in 0..MaxRecogLen } :
        ValidUtf8(s) }

\* Hash::try_from(s), s.parse::<Hash>()
Recognize ==
    \E s \in RecogCands :
        Call("Hash::try_from", <<>>, StrParam(s), RetResult(try_from(s)))

NextRecog ==
    \/ Recognize
    \/ Drop

SpecRecog == Init /\ [][NextRecog]_vars


(***************************************************************************)
(* The cursor alone (parse.rs): a HashSlice is made over a string of at    *)
(* most MaxCursorLen bytes and take, take_until and at_end are called on   *)
(* it in any order.                                                        *)
(***************************************************************************)
CursorBytes == {"a", "$", UTF8_LEAD, UTF8_CONT}

\* the delimiter is any byte: one that occurs, one that does not, and the
\* second byte of a two-byte character
CursorDelims == {"$", "!", UTF8_CONT}

\* HashSlice::new takes a &str: only valid UTF-8 is iterated
CursorStrings ==
    { s \in UNION { [1..k -> CursorBytes] : k \in 0..MaxCursorLen } : ValidUtf8(s) }

\* HashSlice::new(hash)
New ==
    /\ \E hash \in CursorStrings : cursor' = HashSlice_new(hash)
    /\ last' = NoCall
    /\ fields' = NoFields
    /\ UNCHANGED <<op, pass, arg, ret, db, frame>>

\* hs.take(n)
Take ==
    /\ \E n \in 0..(MaxCursorLen + 1) :
          LET t == take(cursor, n)
          IN  /\ cursor' = t.hs
              /\ last' = [name |-> "take", n |-> n, ac |-> "", before |-> cursor.pos,
                          val |-> t.val, b |-> FALSE]
    /\ fields' = Mixed
    /\ UNCHANGED <<op, pass, arg, ret, db, frame>>

\* hs.take_until(ac)
TakeUntil ==
    /\ \E ac \in CursorDelims :
          LET t == take_until(cursor, ac)
          IN  /\ cursor' = t.hs
              /\ last' = [name |-> "take_until", n |-> 0, ac |-> ac, before |-> cursor.pos,
                          val |-> t.val, b |-> FALSE]
              /\ fields' = IF fields.d \in {"fresh", ac} /\ Len(fields.vals) < MaxCalls
                           THEN [d |-> ac, vals |-> Append(fields.vals, t.val)]
                           ELSE Mixed
    /\ UNCHANGED <<op, pass, arg, ret, db, frame>>

\* hs.at_end()
AtEnd ==
    /\ LET t == at_end(cursor)
       IN  /\ cursor' = t.hs
           /\ last' = [name |-> "at_end", n |-> 0, ac |-> "", before |-> cursor.pos,
                       val |-> None, b |-> t.val]
    /\ fields' = Mixed
    /\ UNCHANGED <<op, pass, arg, ret, db, frame>>

NextCursor ==
    \/ New
    \/ Take
    \/ TakeUntil
    \/ AtEnd

SpecCursor == Init /\ [][NextCursor]_vars


(***************************************************************************)
(* bsdi::hash_with statement by statement (crypt/bsdi.rs): the parameter   *)
(* is converted, the rounds are checked, the salt is taken or drawn, the   *)
(* engine is called.                                                       *)
(***************************************************************************)
HashWithParams ==
    BsdiSetups \cup { StrParam(s) : s \in FixedCands }

\* hash_with(param, pass) is entered
HashWithEnter ==
    /\ frame.pc = "idle"
    /\ \E p \in Passwords, a \in HashWithParams :
          frame' = [NoFrame EXCEPT !.pc = "parse", !.param = a, !.pass = p]
    /\ UNCHANGED <<op, pass, arg, ret, db, cursor, last, fields>>

\* a conversion after which the rounds are not checked
HashWithParse_unchecked ==
    /\ frame.pc = "parse"
    /\ LET hs == into_hash_setup(frame.param, parse_bsdi_hash(frame.param.s))
       IN  frame' = [frame EXCEPT
                        !.hs = hs,
                        !.steps = Append(@, "parse"),
                        !.rounds = IF hs.ok /\ hs.rounds.some THEN hs.rounds.v ELSE DEFAULT_ROUNDS,
                        !.pc = IF hs.ok THEN "salt" ELSE "done",
                        !.r = IF hs.ok THEN @ ELSE Err(hs.err)]
    /\ UNCHANGED <<op, pass, arg, ret, db, cursor, last, fields>>

\* let hs = IHS::into_hash_setup(param, parse_bsdi_hash)?;
HashWithParse ==
    /\ frame.pc = "parse"
    /\ LET hs == into_hash_setup(frame.param, parse_bsdi_hash(frame.param.s))
       IN  frame' = [frame EXCEPT
                        !.hs = hs,
                        !.steps = Append(@, "parse"),
                        !.pc = IF hs.ok THEN "rounds" ELSE "done",
                        !.r = IF hs.ok THEN @ ELSE Err(hs.err)]
    /\ UNCHANGED <<op, pass, arg, ret, db, cursor, last, fields>>

\* let rounds = if let Some(r) = hs.rounds { ... r } else { DEFAULT_ROUNDS };
HashWithRounds ==
    /\ frame.pc = "rounds"
    /\ frame' =
          IF frame.hs.rounds.some /\ ~bsdi_rounds_ok(frame.hs.rounds.v)
          THEN [frame EXCEPT !.steps = Append(@, "rounds"), !.pc = "done",
                             !.r = Err("InvalidRounds")]
          ELSE [frame EXCEPT !.steps = Append(@, "rounds"), !.pc = "salt",
                             !.rounds = IF frame.hs.rounds.some THEN frame.hs.rounds.v
                                        ELSE DEFAULT_ROUNDS]
    /\ UNCHANGED <<op, pass, arg, ret, db, cursor, last, fields>>

\* match hs.salt { Some(salt) => ..., None => { let saltstr = random::gen_salt_str(SALT_LEN); ... } }
HashWithSalt ==
    /\ frame.pc = "salt"
    /\ IF frame.hs.salt.some
       THEN frame' = [frame EXCEPT !.steps = Append(@, "salt"), !.pc = "engine",
                                   !.salt = frame.hs.salt.v]
       ELSE \E draw \in Draws :
               frame' = [frame EXCEPT !.steps = Append(@, "salt"), !.pc = "engine",
                                      !.salt = gen_salt_str(bsdi_SALT_LEN, draw),
                                      !.drawn = @ + 1]
    /\ UNCHANGED <<op, pass, arg, ret, db, cursor, last, fields>>

\* bsdi_crypt(pass.as_ref(), salt, rounds)?; Ok(Hash::Bsdi(HashV(hash)))
HashWithEngine ==
    /\ frame.pc = "engine"
    /\ frame' = [frame EXCEPT !.steps = Append(@, "engine"), !.pc = "done",
                              !.engine = @ + 1,
                              !.r = AsHash("Bsdi", bsdi_crypt(frame.pass, frame.salt, frame.rounds))]
    /\ UNCHANGED <<op, pass, arg, ret, db, cursor, last, fields>>

\* the caller has the Result
HashWithReturn ==
    /\ frame.pc = "done"
    /\ frame' = NoFrame
    /\ UNCHANGED <<op, pass, arg, ret, db, cursor, last, fields>>

NextHashWith ==
    \/ HashWithEnter
    \/ HashWithParse
    \/ HashWithRounds
    \/ HashWithSalt
    \/ HashWithEngine
    \/ HashWithReturn

SpecHashWith == Init /\ [][NextHashWith]_vars


(***************************************************************************)
(* Properties.                                                             *)
(***************************************************************************)
\* the call that has returned was given the kept hash and its password
OnKept == db.some /\ pass = db.pass /\ arg = StrParam(db.s)

\* the module of a variant-specific operation
ModuleOf(v) == CASE v = "Apr1" -> "apr1" [] v = "Bsdi" -> "bsdi" [] v = "Unix" -> "unix"
                 [] OTHER -> "other"

\* C1 (round trip): when a variant's hash_with is given a hash h that the same
\* variant returned for the same password, it returns h itself, and the
\* variant's verify returns true for h.
C1_RoundTrip ==
    OnKept /\ db.v \in {"Apr1", "Bsdi", "Unix"} =>
        /\ (op = ModuleOf(db.v) \o "::hash_with" => ret = RetResult(Ok(db.v, db.s)))
        /\ (op = ModuleOf(db.v) \o "::verify" => ret = RetBool(TRUE))

\* the round trip of an apr1 hash that came from a salt longer than 8
C1_Witness ==
    /\ OnKept
    /\ op = "apr1::hash_with"
    /\ db.from.kind = "setup"
    /\ db.from.salt.some
    /\ Len(db.from.salt.v) > apr1_MAX_SALT_LEN
    /\ ret = RetResult(Ok("Apr1", db.s))

\* the round trip of an apr1 hash with an empty salt
C1_EmptySaltReached ==
    /\ OnKept
    /\ op = "apr1::verify"
    /\ Len(db.s) = apr1_HASH_LENGTH_MIN
    /\ ret = RetBool(TRUE)


\* s differs from the kept hash in exactly one byte, which is in the checksum field
IsChecksumMutation(s) ==
    /\ Len(s) = Len(db.s)
    /\ Cardinality({ i \in 1..Len(s) : s[i] # db.s[i] }) = 1
    /\ \A i \in 1..Len(s) : s[i] # db.s[i] => i >= ChecksumStart(db)

\* C2 (mutation rejection): verify, of the hash's variant and the format-agnostic
\* ones, returns false for the password of a hash and that hash with one
\* character of its checksum changed.
C2_MutationRejected ==
    /\ db.some
    /\ pass = db.pass
    /\ arg.kind = "str"
    /\ IsChecksumMutation(arg.s)
    /\ op \in {ModuleOf(db.v) \o "::verify", "Hash::verify", "verify"}
    => ret = RetBool(FALSE)

\* the format-agnostic verify rejects a bsdi hash whose last character was changed
C2_Witness ==
    /\ db.some
    /\ db.v = "Bsdi"
    /\ pass = db.pass
    /\ arg.kind = "str"
    /\ IsChecksumMutation(arg.s)
    /\ arg.s[Len(arg.s)] # db.s[Len(db.s)]
    /\ op = "verify"
    /\ ret = RetBool(FALSE)

VerifyOps == {"apr1::verify", "bsdi::verify", "unix::verify", "Hash::verify", "verify"}

\* the hash that the verify operation o recomputes for candidate s
Recomputed(o, p, s) ==
    CASE o = "apr1::verify" -> apr1_hash_with(StrParam(s), p, 1)
      [] o = "bsdi::verify" -> bsdi_hash_with(StrParam(s), p, 1)
      [] o = "unix::verify" -> unix_hash_with(s, p)
      [] o = "Hash::verify" -> Hash_hash_with(try_from(s), p)
      [] OTHER              -> crypt(p, s)

\* C3 (verify absorbs errors): every verify returns a boolean; it is false
\* when recognition or the recomputation fails, and true exactly when the
\* recomputed hash string equals the candidate.
C3_VerifyAbsorbsErrors ==
    op \in VerifyOps =>
        LET r == Recomputed(op, pass, arg.s)
        IN  /\ ret.kind = "bool"
            /\ ret.b \in BOOLEAN
            /\ (~r.ok => ret.b = FALSE)
            /\ (ret.b <=> (r.ok /\ r.s = arg.s))

\* bsdi::verify of a candidate whose rounds field is out of range: the
\* InvalidRounds of hash_with is reported as false
C3_Witness ==
    /\ op = "bsdi::verify"
    /\ bsdi_hash_with(arg, pass, 1) = Err("InvalidRounds")
    /\ ret = RetBool(FALSE)


\* the bytes of s between its first byte and the next "$" (or its end)
TokenOf(s) ==
    LET idx == { i \in 2..Len(s) : s[i] = "$" }
    IN  IF idx = {} THEN SubSeq(s, 2, Len(s))
        ELSE SubSeq(s, 2, (CHOOSE i \in idx : \A j \in idx : i <= j) - 1)

FirstByte(s) == IF Len(s) = 0 THEN "" ELSE s[1]

KnownTokens ==
    { << "1" >>, << "a", "p", "r", "1" >>, << "2", "a" >>, << "2", "b" >>, << "2", "y" >>,
      << "s", "h", "a", "1" >>, << "5" >>, << "6" >> }

\* the variant whose signature s carries, "none" when it carries none
Signature(s) ==
    LET n == Len(s)
        t == TokenOf(s)
    IN  IF FirstByte(s) = "_" THEN (IF n = 20 THEN "Bsdi" ELSE "none")
        ELSE IF FirstByte(s) = "$"
        THEN CASE t = << "1" >> /\ n \in md5_HASH_LENGTH -> "Md5"
               [] t = << "a", "p", "r", "1" >> /\ n \in 29..37 -> "Apr1"
               [] t \in {<< "2", "a" >>, << "2", "b" >>, << "2", "y" >>}
                    /\ n = bcrypt_HASH_LENGTH -> "Bcrypt"
               [] t = << "s", "h", "a", "1" >> /\ n \in sha1_HASH_LENGTH -> "Sha1"
               [] t = << "5" >> /\ n \in sha256_HASH_LENGTH -> "Sha256"
               [] t = << "6" >> /\ n \in sha512_HASH_LENGTH -> "Sha512"
               [] OTHER -> "none"
        ELSE IF n = 13 THEN "Unix" ELSE "none"

\* C4 (recognition table): Hash::try_from(s) succeeds with variant V exactly
\* when s carries the signature of V (first byte, token, total length), and the
\* Hash holds s; a string that begins with "_" or "$" is never Unix.
C4_RecognitionTable ==
    op = "Hash::try_from" =>
        /\ ret.kind = "result"
        /\ (ret.r.ok <=> Signature(arg.s) # "none")
        /\ (ret.r.ok => ret.r.v = Signature(arg.s) /\ ret.r.s = arg.s)
        /\ (FirstByte(arg.s) \in {"_", "$"} => ret.r.v # "Unix")

\* a string of 13 bytes that begins with "$" was given and was not recognized
C4_Witness ==
    /\ op = "Hash::try_from"
    /\ Len(arg.s) = 13
    /\ FirstByte(arg.s) = "$"
    /\ ~ret.r.ok

\* an apr1 string of the longest length was recognized
C4_Apr1Reached ==
    /\ op = "Hash::try_from"
    /\ Len(arg.s) = 37
    /\ ret.r = Ok("Apr1", arg.s)

\* s carries no signature: an unknown token after "$", or another first byte
\* than "_" and "$" with a length that is not 13
Unrecognised(s) ==
    \/ FirstByte(s) = "$" /\ TokenOf(s) \notin KnownTokens
    \/ FirstByte(s) \notin {"_", "$"} /\ Len(s) # 13

\* C10 (unrecognised input): Hash::try_from(s) fails with InvalidHashString
\* when s starts with "$" and an unknown token, and when s starts with neither
\* "_" nor "$" and is not 13 bytes long.
C10_UnrecognisedRejected ==
    op = "Hash::try_from" /\ Unrecognised(arg.s) => ret = RetResult(Err("InvalidHashString"))

\* the string "$": the cursor is exhausted before the token is read
C10_Witness ==
    /\ op = "Hash::try_from"
    /\ arg.s = << "$" >>
    /\ ret = RetResult(Err("InvalidHashString"))

\* the empty string and "!!" were rejected
C10_EmptyReached == op = "Hash::try_from" /\ arg.s = <<>> /\ ret.r = Err("InvalidHashString")

\* C5 (recognizer and codecs agree): for a hash h that a hashing call returned
\* for password p, Hash::try_from(h) is a Hash of the same variant, the
\* format-agnostic crypt(p, h) returns a Hash whose string is h, and the
\* format-agnostic verify(p, h) is true.
C5_RecognizerAgrees ==
    db.some /\ arg = StrParam(db.s) =>
        /\ (op = "Hash::try_from" => ret = RetResult(Ok(db.v, db.s)))
        /\ (op = "crypt" /\ pass = db.pass => ret = RetResult(Ok(db.v, db.s)))
        /\ (op = "verify" /\ pass = db.pass => ret = RetBool(TRUE))

\* crypt recomputed an apr1 hash that came from a salt longer than 8
C5_Witness ==
    /\ OnKept
    /\ db.v = "Apr1"
    /\ db.from.kind = "setup"
    /\ db.from.salt.some
    /\ Len(db.from.salt.v) > apr1_MAX_SALT_LEN
    /\ op = "crypt"
    /\ ret = RetResult(Ok("Apr1", db.s))

\* the recognizer was given a kept unix hash, and a kept bsdi hash
C5_UnixReached == OnKept /\ db.v = "Unix" /\ op = "verify" /\ ret = RetBool(TRUE)
C5_BsdiReached == db.some /\ db.v = "Bsdi" /\ arg = StrParam(db.s) /\ op = "Hash::try_from" /\ ret.r.ok

\* the format of md5 and apr1: magic, 0..8 salt characters, "$", 22 checksum characters
WellFormedMd5(magic, s) ==
    LET k == Len(s) - Len(magic) - 1 - 22
    IN  /\ k \in 0..8
        /\ SubSeq(s, 1, Len(magic)) = magic
        /\ AllRadix64(SubSeq(s, Len(magic) + 1, Len(magic) + k))
        /\ s[Len(magic) + k + 1] = "$"
        /\ AllRadix64(SubSeq(s, Len(magic) + k + 2, Len(s)))

\* the exact format of a variant: magic, field widths, checksum length, characters
WellFormed(v, s) ==
    CASE v = "Apr1" -> WellFormedMd5(APR1_MAGIC, s)
      [] v = "Md5"  -> WellFormedMd5(MD5_MAGIC, s)
      [] v = "Bsdi" -> Len(s) = 20 /\ s[1] = "_" /\ AllRadix64(Tail(s))
      [] v = "Unix" -> Len(s) = 13 /\ AllRadix64(s)
      [] OTHER      -> /\ Signature(s) = v
                       /\ ParamFieldsOk(v, ParamFields(v, s))
                       /\ AllRadix64(SubSeq(s, Len(s) - ChecksumLen(v) + 1, Len(s)))

\* a Hash was returned by the call
HashReturned == ret.kind = "result" /\ ret.r.ok /\ op \in HashingOps \cup {"Hash::try_from"}

\* C6 as stated (format invariant): every Hash obtained through the public
\* interface, the recognizer included, holds a string of its variant's exact
\* format.
C6_FormatInvariant == HashReturned => WellFormed(ret.r.v, ret.r.s)

\* C6 (format invariant, amended): a Hash returned by a codec's hash or hash_with,
\* by Hash::hash_with or by the format-agnostic crypt holds a string of its
\* variant's exact format; a Hash returned by Hash::try_from holds the string it
\* was given, which carries the variant's signature (leading bytes and total
\* length) and is not validated further.
C6_FormatInvariantOfCodecs ==
    HashReturned =>
        IF op = "Hash::try_from"
        THEN ret.r.s = arg.s /\ Signature(ret.r.s) = ret.r.v
        ELSE WellFormed(ret.r.v, ret.r.s)

\* the recognizer returned a Hash whose string is not of its variant's format
C6_Witness ==
    /\ op = "Hash::try_from"
    /\ HashReturned
    /\ ret.r.v = "Apr1"
    /\ ~WellFormed(ret.r.v, ret.r.s)

\* a codec returned a Hash for a salt that it truncated
C6_CodecReached ==
    /\ op = "apr1::hash_with"
    /\ HashReturned
    /\ arg.kind = "setup" /\ arg.salt.some /\ Len(arg.salt.v) > 8
    /\ WellFormed(ret.r.v, ret.r.s)

\* the number written by the 4 characters f of a rounds field
RoundsValue(f) ==
    DecodeChar(f[1]) + 64 * DecodeChar(f[2]) + 64 * 64 * DecodeChar(f[3])
        + 64 * 64 * 64 * DecodeChar(f[4])

\* the parameter hands a rounds value to hash_with: a HashSetup with rounds, or
\* a string with "_", a rounds field and a salt field
RoundsSupplied(a) ==
    \/ a.kind = "setup" /\ a.rounds.some
    \/ /\ a.kind = "str"
       /\ Len(a.s) >= 9
       /\ a.s[1] = "_"
       /\ AllRadix64(SubSeq(a.s, 2, 5))
       /\ ValidUtf8(SubSeq(a.s, 6, 9))

SuppliedRounds(a) == IF a.kind = "setup" THEN a.rounds.v ELSE RoundsValue(SubSeq(a.s, 2, 5))

\* C7 (bsdi rounds range): bsdi::hash_with given a rounds value r fails with
\* InvalidRounds exactly when r is outside 1..2^24-1; when it succeeds the rounds
\* field of the result is r, not a clamped value; without a rounds value it
\* never fails with InvalidRounds and the rounds field of the result is 7250.
C7_RoundsRange ==
    op = "bsdi::hash_with" =>
        IF RoundsSupplied(arg)
        THEN LET r == SuppliedRounds(arg)
             IN  /\ (ret.r = Err("InvalidRounds")) <=> (r < 1 \/ r > (2 ^ 24) - 1)
                 /\ (ret.r.ok => RoundsValue(SubSeq(ret.r.s, 2, 5)) = r)
        ELSE /\ ret.r # Err("InvalidRounds")
             /\ (ret.r.ok => /\ SubSeq(ret.r.s, 2, 5) = << "G", "l", "/", "." >>
                             /\ RoundsValue(SubSeq(ret.r.s, 2, 5)) = 7250)

\* rounds = 2^24 in a HashSetup was refused
C7_Witness ==
    /\ op = "bsdi::hash_with"
    /\ arg.kind = "setup"
    /\ arg.rounds = SomeRounds(2 ^ 24)
    /\ ret.r = Err("InvalidRounds")

\* rounds = 2^24 - 1 and rounds = 1 were accepted, a rounds field of 0 in a
\* string was refused, and the default was encoded
C7_MaxReached ==
    op = "bsdi::hash_with" /\ arg.rounds = SomeRounds((2 ^ 24) - 1) /\ ret.r.ok
C7_MinReached ==
    op = "bsdi::hash_with" /\ arg.rounds = SomeRounds(1) /\ ret.r.ok
C7_StringZeroReached ==
    op = "bsdi::hash_with" /\ arg.kind = "str" /\ RoundsSupplied(arg) /\ ret.r = Err("InvalidRounds")
C7_DefaultReached ==
    op = "bsdi::hash_with" /\ arg.kind = "setup" /\ ~arg.rounds.some /\ ret.r.ok


\* the salt field of an apr1 string: the bytes after the magic up to the next "$"
SaltField(s) == TokenOf(SubSeq(s, Len(APR1_MAGIC), Len(s)))

\* the parameter hands a salt to hash_with: a HashSetup with a salt, or a string
\* with the magic and at least one more byte
SaltSupplied(a) ==
    \/ a.kind = "setup" /\ a.salt.some
    \/ a.kind = "str" /\ Len(a.s) > Len(APR1_MAGIC) /\ SubSeq(a.s, 1, Len(APR1_MAGIC)) = APR1_MAGIC

SuppliedSalt(a) == IF a.kind = "setup" THEN a.salt.v ELSE SaltField(a.s)

\* C8 (apr1 salt truncation): apr1::hash_with and apr1_crypt::hash_with given a
\* salt longer than 8 hand its first 8 to the engine, so the salt field of the
\* result has length 8; a salt of length 0..8 is handed on unchanged.  Lengths are
\* counted in bytes: a cut inside a multi-byte character is InvalidHashString.
C8_SaltTruncation ==
    op \in {"apr1::hash_with", "apr1_crypt::hash_with"} /\ SaltSupplied(arg) =>
        LET salt   == SuppliedSalt(arg)
            prefix == SubSeq(salt, 1, 8)
            wrap   == IF op = "apr1::hash_with" THEN "Apr1" ELSE "none"
        IN  IF Len(salt) <= 8
            THEN ret.r = AsHash(wrap, do_md5_crypt(pass, salt, APR1_MAGIC))
            ELSE IF ValidUtf8(prefix)
            THEN /\ ret.r = AsHash(wrap, do_md5_crypt(pass, prefix, APR1_MAGIC))
                 /\ (ret.r.ok => SaltField(ret.r.s) = prefix /\ Len(SaltField(ret.r.s)) = 8)
            ELSE ret.r = Err("InvalidHashString")

\* a hash string with a salt of 9 characters gave a hash with a salt of 8
C8_Witness ==
    /\ op = "apr1::hash_with"
    /\ arg.kind = "str"
    /\ SaltSupplied(arg)
    /\ Len(SuppliedSalt(arg)) > 8
    /\ ret.r.ok
    /\ SaltField(ret.r.s) = SubSeq(SuppliedSalt(arg), 1, 8)

\* the legacy module truncated a salt of a HashSetup
C8_LegacyReached ==
    /\ op = "apr1_crypt::hash_with"
    /\ arg.kind = "setup" /\ arg.salt.some /\ Len(arg.salt.v) = 10
    /\ ret.r.ok
    /\ Len(SaltField(ret.r.s)) = 8

\* a salt of 8 characters in 9 bytes was refused
C8_MultiByteReached ==
    /\ op = "apr1::hash_with"
    /\ arg.kind = "setup" /\ arg.salt = Some(SALT_8CHARS_9BYTES)
    /\ ret.r = Err("InvalidHashString")


\* the last byte of the salt field of the kept hash
SaltEnd(h) == IF h.v = "Apr1" THEN Len(APR1_MAGIC) + Len(SaltField(h.s)) ELSE 1 + 4 + 4

\* s and the kept hash agree on the magic, the rounds field and the salt field
\* up to its end; what follows the salt field in s is anything or nothing
AgreeThroughSalt(s, h) ==
    /\ Len(s) >= SaltEnd(h)
    /\ SubSeq(s, 1, SaltEnd(h)) = SubSeq(h.s, 1, SaltEnd(h))
    /\ (h.v = "Apr1" /\ Len(s) > SaltEnd(h) => s[SaltEnd(h) + 1] = "$")

\* hash_with of the kept hash's module was given a string that agrees with the
\* kept hash through the salt field
C9_Case ==
    /\ db.some
    /\ db.v \in {"Apr1", "Bsdi"}
    /\ op = ModuleOf(db.v) \o "::hash_with"
    /\ arg.kind = "str"
    /\ AgreeThroughSalt(arg.s, db)

\* the outcome of hash_with for the kept hash itself and password p
OutcomeOfKept(p) ==
    IF db.v = "Apr1" THEN apr1_hash_with(StrParam(db.s), p, 1)
    ELSE bsdi_hash_with(StrParam(db.s), p, 1)

\* C9 as stated (checksum ignored): two parameter strings that agree through the
\* salt field give the same outcome for the same password, whatever follows.
C9_ChecksumIgnored == C9_Case => ret.r = OutcomeOfKept(pass)

\* C9 (checksum ignored, amended): two parameter strings that agree through
\* the salt field give the same outcome for the same password, except the apr1
\* string that ends with the magic: it is InvalidHashString, while the magic
\* followed by "$" is the empty salt.
C9_ChecksumIgnoredButMagicAlone ==
    C9_Case =>
        IF arg.s = APR1_MAGIC
        THEN ret.r = Err("InvalidHashString") /\ OutcomeOfKept(pass).ok
        ELSE ret.r = OutcomeOfKept(pass)

\* an apr1 hash with the empty salt is kept and hash_with was given the magic alone
C9_Witness ==
    /\ C9_Case
    /\ arg.s = APR1_MAGIC
    /\ ret.r = Err("InvalidHashString")

\* hash_with was given a kept apr1 hash cut after a salt that is not empty, and a
\* kept bsdi hash cut after its salt
C9_Apr1CutReached ==
    C9_Case /\ db.v = "Apr1" /\ Len(arg.s) = SaltEnd(db) /\ Len(arg.s) > Len(APR1_MAGIC) /\ ret.r.ok
C9_BsdiCutReached ==
    C9_Case /\ db.v = "Bsdi" /\ Len(arg.s) = SaltEnd(db) /\ ret.r.ok
C9_MutationReached ==
    C9_Case /\ IsChecksumMutation(arg.s) /\ ret.r.ok

\* hash_with was given a string shorter than the fixed part of its variant: a
\* unix salt of fewer than 2 bytes, an apr1 string shorter than the magic, a
\* bsdi string shorter than "_", 4 rounds characters and 4 salt characters
ShortParam ==
    /\ arg.kind = "str"
    /\ \/ op = "unix::hash_with" /\ Len(arg.s) < 2
       \/ op = "apr1::hash_with" /\ Len(arg.s) < Len(APR1_MAGIC)
       \/ op = "bsdi::hash_with" /\ Len(arg.s) < 1 + 4 + 4

\* C11 as stated (short input): hash_with given a string shorter than the
\* fixed part of its variant fails with InsufficientLength.
C11_ShortIsInsufficientLength == ShortParam => ret.r = Err("InsufficientLength")

\* the rounds field of the bsdi string s is complete and holds a character
\* outside the alphabet
BadRoundsField(s) ==
    /\ Len(s) >= 1 + 4
    /\ s[1] = "_"
    /\ ValidUtf8(SubSeq(s, 2, 5))
    /\ ~AllRadix64(SubSeq(s, 2, 5))

\* C11 (short input, amended): a unix salt of fewer than 2 characters of the
\* alphabet fails with InsufficientLength; an apr1 string shorter than the magic and a bsdi string
\* shorter than 9 bytes fail with InvalidHashString (the bsdi string with
\* EncodingError when its 4 rounds characters are there and one is outside the
\* alphabet), never with InsufficientLength.
C11_ShortErrorKinds ==
    ShortParam =>
        CASE op = "unix::hash_with" ->
                 /\ ~ret.r.ok
                 /\ (AllRadix64(arg.s) => ret.r = Err("InsufficientLength"))
          [] op = "apr1::hash_with" -> ret.r = Err("InvalidHashString")
          [] OTHER ->
                 ret.r = Err(IF BadRoundsField(arg.s) THEN "EncodingError"
                             ELSE "InvalidHashString")

\* bsdi::hash_with was given "_" and a rounds field, without a salt
C11_Witness ==
    /\ op = "bsdi::hash_with"
    /\ arg = StrParam(<< "_", "G", "l", "/", "." >>)
    /\ ret.r = Err("InvalidHashString")

\* the unix salt of 1 character and the apr1 string "$" were given
C11_UnixReached ==
    op = "unix::hash_with" /\ arg.s = << "Z" >> /\ ret.r = Err("InsufficientLength")
C11_Apr1Reached ==
    op = "apr1::hash_with" /\ arg = StrParam(<< "$" >>) /\ ret.r = Err("InvalidHashString")
C11_BadRoundsReached ==
    op = "bsdi::hash_with" /\ ShortParam /\ ret.r = Err("EncodingError")

\* the part of a supplied apr1 salt that hash_with hands to the engine
UsedApr1Salt(a) ==
    IF Len(SuppliedSalt(a)) <= 8 THEN SuppliedSalt(a) ELSE SubSeq(SuppliedSalt(a), 1, 8)

\* hash_with was given a salt, or a rounds or salt field of a hash string, that
\* is complete and holds a character outside the alphabet, and nothing else is
\* wrong with the parameter
BadCharParam ==
    \/ /\ op = "unix::hash_with"
       /\ Len(arg.s) >= 2
       /\ ~AllRadix64(SubSeq(arg.s, 1, 2))
    \/ /\ op = "apr1::hash_with"
       /\ SaltSupplied(arg)
       /\ ValidUtf8(UsedApr1Salt(arg))
       /\ ~AllRadix64(UsedApr1Salt(arg))
    \/ /\ op = "bsdi::hash_with"
       /\ arg.kind = "setup"
       /\ arg.rounds.some => bsdi_rounds_ok(arg.rounds.v)
       /\ arg.salt.some
       /\ Len(arg.salt.v) >= 4
       /\ ~AllRadix64(SubSeq(arg.salt.v, 1, 4))
    \/ /\ op = "bsdi::hash_with"
       /\ arg.kind = "str"
       /\ BadRoundsField(arg.s)
    \/ /\ op = "bsdi::hash_with"
       /\ arg.kind = "str"
       /\ RoundsSupplied(arg)
       /\ bsdi_rounds_ok(SuppliedRounds(arg))
       /\ ~AllRadix64(SubSeq(arg.s, 6, 9))

C12_RoundsFieldReached ==
    op = "bsdi::hash_with" /\ arg.kind = "str" /\ Len(arg.s) >= 9 /\ BadRoundsField(arg.s)
        /\ ret.r = Err("EncodingError")
C12_SaltFieldReached ==
    op = "bsdi::hash_with" /\ arg.kind = "str" /\ RoundsSupplied(arg) /\ BadCharParam
        /\ ret.r = Err("EncodingError")
C12_SetupReached ==
    op = "bsdi::hash_with" /\ arg.kind = "setup" /\ BadCharParam /\ ret.r = Err("EncodingError")
C12_Apr1Reached ==
    op = "apr1::hash_with" /\ arg.kind = "setup" /\ BadCharParam /\ ret.r = Err("EncodingError")

\* the smallest total length of the variant that the leading bytes of s select,
\* 0 when they select none
MinLengthSelected(s) ==
    LET t     == TokenOf(s)
        least(S) == CHOOSE m \in S : \A x \in S : m <= x
    IN  IF FirstByte(s) = "_" THEN bsdi_HASH_LENGTH
        ELSE IF FirstByte(s) # "$" THEN 0
        ELSE CASE t = << "1" >> -> least(md5_HASH_LENGTH)
               [] t = << "a", "p", "r", "1" >> -> apr1_HASH_LENGTH_MIN
               [] t \in {<< "2", "a" >>, << "2", "b" >>, << "2", "y" >>} -> bcrypt_HASH_LENGTH
               [] t = << "s", "h", "a", "1" >> -> least(sha1_HASH_LENGTH)
               [] t = << "5" >> -> least(sha256_HASH_LENGTH)
               [] t = << "6" >> -> least(sha512_HASH_LENGTH)
               [] OTHER -> 0

\* C13 (InsufficientLength means too short): Hash::try_from(s) fails with
\* InsufficientLength only when s is shorter than the smallest total length of
\* the variant that its leading bytes select.
C13_InsufficientMeansShort ==
    op = "Hash::try_from" /\ ret.r = Err("InsufficientLength") =>
        Len(arg.s) < MinLengthSelected(arg.s)

\* a string of 21 bytes that begins with "_" was refused with InsufficientLength
C13_TooLongReached ==
    /\ op = "Hash::try_from"
    /\ FirstByte(arg.s) = "_"
    /\ Len(arg.s) = 21
    /\ ret.r = Err("InsufficientLength")


(***************************************************************************)
(* The cursor (parse.rs).                                                  *)
(***************************************************************************)
\* the cursor is drained: every byte and the end of the string were consumed
Drained(hs) == hs.pos > hs.len

\* the call last made found the cursor drained
CalledDrained == last.name # "new" /\ last.before > cursor.len

\* C14: the position of a cursor stays within 0..len+1 and never decreases,
\* and a call of take, take_until or at_end on a drained cursor leaves the
\* position where it was, take and take_until returning None
C14_ExhaustionPermanent ==
    /\ 0 <= cursor.pos
    /\ cursor.pos <= cursor.len + 1
    /\ last.before <= cursor.pos
    /\ CalledDrained =>
          /\ cursor.pos = last.before
          /\ last.name \in {"take", "take_until"} => last.val = None
    /\ Drained(cursor) =>
          /\ \A n \in 0..(MaxCursorLen + 1) : take(cursor, n) = [hs |-> cursor, val |-> None]
          /\ \A ac \in CursorDelims : take_until(cursor, ac) = [hs |-> cursor, val |-> None]

\* take(0) was called on a drained cursor
C14_Witness ==
    /\ last.name = "take"
    /\ last.n = 0
    /\ last.before = cursor.len + 1
    /\ last.val = None
    /\ cursor.pos = last.before

\* take_until was called on a drained cursor
C14_TakeUntilReached ==
    /\ last.name = "take_until"
    /\ last.before = cursor.len + 1
    /\ cursor.len > 0


\* every byte of s is an ASCII character
Ascii(s) == \A i \in 1..Len(s) : s[i] \notin {UTF8_LEAD, UTF8_CONT}

\* take was called on a cursor over an ASCII string that was not drained
TookAscii == last.name = "take" /\ Ascii(cursor.bp) /\ last.before <= cursor.len

\* C15: take(n) with r = len - pos bytes left of an ASCII string: n > r gives
\* None and drains the cursor; 1 <= n < r gives the n bytes and moves to
\* pos + n; n = r gives the n bytes and drains the cursor, every later call
\* returning None; take(0) with r > 0 gives the empty string and moves nothing
C15_TakeCases ==
    TookAscii =>
        LET r == cursor.len - last.before
            n == last.n
            bytes == SubSeq(cursor.bp, last.before + 1, last.before + n)
        IN  /\ n > r => last.val = None /\ cursor.pos = cursor.len + 1
            /\ 1 <= n /\ n < r => last.val = Some(bytes) /\ cursor.pos = last.before + n
            /\ n = r =>
                  /\ last.val = Some(bytes)
                  /\ cursor.pos = cursor.len + 1
                  /\ \A m \in 0..(MaxCursorLen + 1) : take(cursor, m).val = None
                  /\ \A ac \in CursorDelims : take_until(cursor, ac).val = None
            /\ n = 0 /\ r > 0 => last.val = Some(<<>>) /\ cursor.pos = last.before

\* take(2) consumed the last two bytes of "a$a"
C15_Witness ==
    /\ TookAscii
    /\ cursor.bp = <<"a", "$", "a">>
    /\ last.n = 2
    /\ last.before = 1
    /\ last.val = Some(<<"$", "a">>)
    /\ cursor.pos = 4

\* take(3) with two bytes left
C15_OvershootReached ==
    TookAscii /\ last.n = 3 /\ last.before = 1 /\ cursor.len = 3 /\ last.val = None /\ cursor.pos = 4

\* take(0) at the end of the string
C15_ZeroAtEndReached ==
    TookAscii /\ last.n = 0 /\ last.before = cursor.len /\ cursor.len > 0 /\ cursor.pos = cursor.len + 1

\* take(0) and take(1) with bytes left
C15_InsideReached ==
    TookAscii /\ last.n \in {0, 1} /\ last.before + last.n < cursor.len /\ last.val.some


\* take_until was called on a cursor that was not drained
TookUntil == last.name = "take_until" /\ last.before <= cursor.len

\* the delimiter occurs at or after the position the call found
DelimiterAhead == \E i \in (last.before + 1)..cursor.len : cursor.bp[i] = last.ac

\* the 0-based index of its first occurrence there, or len
StopAt ==
    IF DelimiterAhead
    THEN (CHOOSE i \in (last.before + 1)..cursor.len :
             /\ cursor.bp[i] = last.ac
             /\ \A j \in (last.before + 1)..(i - 1) : cursor.bp[j] # last.ac) - 1
    ELSE cursor.len

\* the bytes from the position the call found up to its stop
FieldBytes == SubSeq(cursor.bp, last.before + 1, StopAt)

\* the position after the call: one past the delimiter, or drained
MovedPastField ==
    /\ cursor.pos = StopAt + 1
    /\ DelimiterAhead => cursor.pos <= cursor.len /\ cursor.bp[cursor.pos] = last.ac
    /\ ~DelimiterAhead => cursor.pos = cursor.len + 1

\* C16 as stated: take_until on a cursor that is not drained returns, for any
\* string and any delimiter byte, the bytes up to the first delimiter or up
\* to the end, and moves one past the delimiter or drains the cursor
C16_TakeUntilAlwaysReturns ==
    TookUntil => last.val = Some(FieldBytes) /\ MovedPastField

\* C16: take_until on a cursor that is not drained moves one past the first
\* delimiter, or drains the cursor when there is none, and returns the bytes
\* before its stop when they are valid UTF-8, as they are on an ASCII string,
\* and None when they are not
C16_TakeUntilReturnsValidField ==
    TookUntil =>
        /\ MovedPastField
        /\ last.val = IF ValidUtf8(FieldBytes) THEN Some(FieldBytes) ELSE None
        /\ Ascii(cursor.bp) => last.val = Some(FieldBytes)

\* take_until('$') on "a$a" returned "a" and moved past the '$'
C16_Witness ==
    /\ TookUntil
    /\ cursor.bp = <<"a", "$", "a">>
    /\ last.ac = "$"
    /\ last.before = 0
    /\ last.val = Some(<<"a">>)
    /\ cursor.pos = 2

\* the delimiter is the second byte of a character: None, cursor not drained
C16_CutCharacterReached ==
    /\ TookUntil
    /\ cursor.bp = <<UTF8_LEAD, UTF8_CONT, "a">>
    /\ last.ac = UTF8_CONT
    /\ last.before = 0
    /\ last.val = None
    /\ cursor.pos = 2

\* the cursor stood inside a character: None for the delimiter '$'
C16_InsideCharacterReached ==
    /\ TookUntil
    /\ cursor.bp = <<UTF8_LEAD, UTF8_CONT, "$">>
    /\ last.ac = "$"
    /\ last.before = 1
    /\ last.val = None

\* no delimiter ahead: the rest is returned and the cursor is drained
C16_RestReached ==
    /\ TookUntil
    /\ ~DelimiterAhead
    /\ last.before < cursor.len
    /\ last.val = Some(SubSeq(cursor.bp, last.before + 1, cursor.len))
    /\ cursor.pos = cursor.len + 1


\* at_end was called
AskedAtEnd == last.name = "at_end"

C17_TrailingReached ==
    /\ AskedAtEnd
    /\ cursor.bp = <<"a", "$">>
    /\ last.before = 2
    /\ ~last.b

\* at_end on a drained cursor answered true
C17_DrainedReached ==
    /\ AskedAtEnd
    /\ cursor.len > 0
    /\ last.before = cursor.len + 1
    /\ last.b

\* at_end with bytes left answered false
C17_BytesLeftReached ==
    /\ AskedAtEnd
    /\ last.before < cursor.len
    /\ ~last.b


\* the cursor as the at_end call found it
BeforeAtEnd == [cursor EXCEPT !.pos = last.before]

\* C18: at_end is a probe: it leaves the position where it was, so take,
\* take_until and at_end called after it return what they would have
\* returned without it, and a second at_end gives the answer of the first
C18_AtEndIsProbe ==
    AskedAtEnd =>
        /\ cursor.pos = last.before
        /\ at_end(cursor).val = last.b
        /\ \A n \in 0..(MaxCursorLen + 1) : take(cursor, n).val = take(BeforeAtEnd, n).val
        /\ \A ac \in CursorDelims : take_until(cursor, ac).val = take_until(BeforeAtEnd, ac).val

\* at_end moved the cursor: it found pos = len after the '$' of "a$", answered
\* false and drained the cursor, so that the last, empty field is lost
C18_ConsumedReached ==
    /\ AskedAtEnd
    /\ cursor.bp = <<"a", "$">>
    /\ last.before = 2
    /\ ~last.b
    /\ cursor.pos = 3
    /\ at_end(cursor).val
    /\ take_until(BeforeAtEnd, "$").val = Some(<<>>)
    /\ take_until(cursor, "$").val = None

\* at_end with bytes left, and on a drained cursor, moves nothing
C18_ProbeElsewhere ==
    AskedAtEnd /\ last.before # cursor.len => cursor.pos = last.before


\* the number of occurrences of the byte d in s
Occurrences(s, d) == Cardinality({ i \in 1..Len(s) : s[i] = d })

\* the pieces of s between the occurrences of d, in order
RECURSIVE Pieces(_, _)
Pieces(s, d) ==
    IF Occurrences(s, d) = 0
    THEN << s >>
    ELSE LET i == CHOOSE i \in 1..Len(s) : s[i] = d /\ \A j \in 1..(i - 1) : s[j] # d
         IN  << SubSeq(s, 1, i - 1) >> \o Pieces(SubSeq(s, i + 1, Len(s)), d)

\* since the cursor was made over an ASCII string, only take_until with one
\* delimiter was called on it
Splitting == fields.d \in CursorDelims /\ Ascii(cursor.bp)

\* C19: take_until(d) called again and again on a fresh cursor over an ASCII
\* string with k occurrences of d returns the k + 1 pieces of the string in
\* order, the last one empty when the string is empty or ends in d; after
\* them the cursor is drained, at_end is true and every call returns None;
\* the cursor is drained after at most len + 1 calls
C19_SplitTerminates ==
    Splitting =>
        LET s == cursor.bp
            d == fields.d
            k == Occurrences(s, d)
            calls == Len(fields.vals)
        IN  /\ Len(Pieces(s, d)) = k + 1
            /\ \A i \in 1..calls :
                  fields.vals[i] = IF i <= k + 1 THEN Some(Pieces(s, d)[i]) ELSE None
            /\ (s = <<>> \/ s[Len(s)] = d) => Pieces(s, d)[k + 1] = <<>>
            /\ Drained(cursor) <=> calls >= k + 1
            /\ calls >= cursor.len + 1 => Drained(cursor)
            /\ Drained(cursor) =>
                  /\ at_end(cursor).val
                  /\ \A n \in 0..(MaxCursorLen + 1) : take(cursor, n).val = None
                  /\ take_until(cursor, d).val = None

\* "$a$" was split on '$' into "", "a" and "", and a fourth call returned None
C19_Witness ==
    /\ Splitting
    /\ cursor.bp = <<"$", "a", "$">>
    /\ fields = [d |-> "$", vals |-> << Some(<<>>), Some(<<"a">>), Some(<<>>), None >>]
    /\ Drained(cursor)

\* the empty string was split into one empty piece
C19_EmptyReached ==
    /\ Splitting
    /\ cursor.bp = <<>>
    /\ fields.vals = << Some(<<>>) >>
    /\ Drained(cursor)

\* a string of delimiters alone takes len + 1 calls
C19_LongestReached ==
    /\ Splitting
    /\ cursor.len = MaxCursorLen
    /\ Len(fields.vals) = cursor.len + 1
    /\ \A i \in 1..(cursor.len + 1) : fields.vals[i] = Some(<<>>)
    /\ Drained(cursor)

\* calls went on after the cursor was drained for as long as they are kept
C19_CallsAfterReached ==
    Splitting /\ Len(fields.vals) = MaxCalls /\ fields.vals[MaxCalls] = None


(***************************************************************************)
(* The order of the validation in bsdi::hash_with.                         *)
(***************************************************************************)
\* what the conversion of the parameter of the invocation gives
ParsedParam == into_hash_setup(frame.param, parse_bsdi_hash(frame.param.s))

\* the rounds of the parameter are outside MIN_ROUNDS..=MAX_ROUNDS
RoundsOutOfRange ==
    /\ ParsedParam.ok
    /\ ParsedParam.rounds.some
    /\ (ParsedParam.rounds.v < MIN_ROUNDS \/ ParsedParam.rounds.v > MAX_ROUNDS)

\* s starts with the sequence p
StartsWith(s, p) == Len(s) >= Len(p) /\ SubSeq(s, 1, Len(p)) = p

\* C20: bsdi::hash_with converts the parameter first, a string that does not
\* parse being reported before the rounds are checked; it checks the rounds
\* next; only then does it take or draw the salt and call the engine: with
\* rounds out of range the result is InvalidRounds whatever the salt is, no
\* salt is drawn and the engine is not called
C20_ValidationOrder ==
    /\ \E n \in 0..4 : frame.steps = SubSeq(<<"parse", "rounds", "salt", "engine">>, 1, n)
    /\ frame.pc = "done" /\ ~ParsedParam.ok =>
          /\ frame.r = Err(ParsedParam.err)
          /\ frame.steps = <<"parse">>
    /\ RoundsOutOfRange /\ StartsWith(frame.steps, <<"parse", "rounds">>) =>
          /\ frame.pc = "done"
          /\ frame.r = Err("InvalidRounds")
          /\ frame.steps = <<"parse", "rounds">>
    /\ frame.drawn + frame.engine > 0 =>
          /\ StartsWith(frame.steps, <<"parse", "rounds", "salt">>)
          /\ ~RoundsOutOfRange
    /\ RoundsOutOfRange => frame.drawn = 0 /\ frame.engine = 0

\* rounds 0 with a salt that has a character outside the alphabet: InvalidRounds
C20_Witness ==
    /\ frame.pc = "done"
    /\ frame.param = SetupParam(Some(<<"K", "!", "A", "y">>), SomeRounds(0))
    /\ frame.r = Err("InvalidRounds")
    /\ frame.drawn = 0
    /\ frame.engine = 0

\* rounds above the maximum with no salt: InvalidRounds and no draw
C20_AbsentSaltReached ==
    /\ frame.pc = "done"
    /\ frame.param = SetupParam(None, SomeRounds(MAX_ROUNDS + 1))
    /\ frame.r = Err("InvalidRounds")
    /\ frame.drawn = 0

\* rounds 0 with a valid salt, in a string: InvalidRounds
C20_ValidSaltReached ==
    /\ frame.pc = "done"
    /\ frame.param = StrParam(<< "_", ".", ".", ".", ".", "K", "0", "A", "y" >>)
    /\ frame.r = Err("InvalidRounds")
    /\ frame.engine = 0

\* rounds 0 with a bad salt, in a string: InvalidRounds
C20_StringBadSaltReached ==
    /\ frame.pc = "done"
    /\ frame.param = StrParam(<< "_", ".", ".", ".", ".", "K", "!", "A", "y" >>)
    /\ frame.r = Err("InvalidRounds")

\* a string without the '_' is refused before the rounds check
C20_ParseFirstReached ==
    /\ frame.pc = "done"
    /\ frame.param = StrParam(APR1_MAGIC)
    /\ frame.r = Err("InvalidHashString")
    /\ frame.steps = <<"parse">>

\* rounds in range and no salt: a salt is drawn and the engine is called
C20_DrawnReached ==
    /\ frame.pc = "done"
    /\ frame.param = SetupParam(None, SomeRounds(1))
    /\ frame.drawn = 1
    /\ frame.engine = 1
    /\ frame.r.ok

\* the statements together compute what bsdi_hash_with computes
C20_StepsAgree ==
    frame.pc = "done" => \E draw \in Draws : frame.r = bsdi_hash_with(frame.param, frame.pass, draw)

=============================================================================
